---- MODULE Spec2Model ----
(***************************************************************************)
(* Callback binding between the IUP C library and Rust closures            *)
(* (src/src/iup/callback.rs).                                              *)
(*                                                                         *)
(* The native library keeps, per widget handle, an attribute store         *)
(* (string key -> opaque pointer) and a callback table (callback name ->   *)
(* function pointer).  The binding stores the raw pointer of a boxed       *)
(* closure in the attribute "_IUPRUST_FBOX_<name>" and installs an         *)
(* extern listener as the function pointer of <name>.                      *)
(*                                                                         *)
(* Closures are identified by the address of their allocation (a positive  *)
(* integer, never reused); NULL is the null pointer.  Ownership is counted *)
(* from what the code does: boxes[c] is the number of live owning Box      *)
(* values for c held by host code, freed[c] the number of times a Box for  *)
(* c was dropped, and the attribute slot holds the raw pointer.  The trace *)
(* lists, in order, the native calls and the closure calls of the last     *)
(* operation, each with the slot and trampoline it left.                   *)
(*                                                                         *)
(* Closures are opaque host code that does not call back into the binding  *)
(* (the protocol is re-entrant-unsafe by design).                          *)
(***************************************************************************)
EXTENDS Integers, Sequences, FiniteSets, TLC

\* ---------------------------------------------------------------- bounds
NumHandles == 2
MaxClosures == 2

\* ------------------------------------------------------------- constants
\* ptr::null()
NULL == 0
\* transmute(ptr::null::<u8>()) as a function pointer
NullCallback == "null"

Handles == 1..NumHandles
ClosureIds == 1..MaxClosures
\* the callback names impl_callback! is instantiated for
Names == {"ACTION", "DESTROY_CB"}
\* iup_sys::CallbackReturn
CallbackReturn == {"Ignore", "Default", "Close", "Continue"}
\* the unit result of a Fn(Ihandle) -> () closure
Unit == "unit"

\* A variant that leaves the callback name out of the key.
fbox_c_str_no_name(cb_name) == "_IUPRUST_FBOX_"

\* fbox_c_str!($cb_name)
fbox_c_str(cb_name) == "_IUPRUST_FBOX_" \o cb_name
FboxKeys == {fbox_c_str(n) : n \in Names}

\* the extern fn generated for a callback name
ListenerOf(cb_name) ==
    IF cb_name = "ACTION" THEN "listener_action" ELSE "listener_destroy_cb"

\* Ihandle::from_ptr(ih): the host wrapper of a raw handle pointer
from_ptr(ih) == [ptr |-> ih]

VARIABLES
    attr,      \* attr[h][key]: the attribute store of handle h
    cb,        \* cb[h][name]: the function-pointer table of handle h
    boxes,     \* boxes[c]: live owning boxes of closure c held by host code
    freed,     \* freed[c]: how many times a box of closure c was dropped
    nextId,    \* the next allocation
    panicked,  \* a listener's assertion failed
    phase,     \* phase[h]: "live", "destroying" (between LDESTROY_CB and DESTROY_CB), "dead"
    trace,     \* the native calls and closure invocations of the last operation
    last,      \* the last operation, its arguments and its result (again: a
               \* Dispatch that follows a Dispatch of the same handle and name;
               \* cres: what the closure returned to the listener)
    latest     \* latest[h][name]: the closure passed to the most recent Register with a closure

vars == <<attr, cb, boxes, freed, nextId, panicked, phase, trace, last, latest>>

\* The part of the state the binding's functions read and write.
Cur ==
    [attr |-> attr, cb |-> cb, boxes |-> boxes, freed |-> freed,
     panicked |-> panicked, trace |-> <<>>]

\* One entry of the trace: what was done, and the slot and trampoline of
\* (ih, name) right after it.
Log(st, op, ih, name, val) ==
    [st EXCEPT !.trace = Append(@,
        [op |-> op, h |-> ih, name |-> name, val |-> val,
         slot |-> st.attr[ih][fbox_c_str(name)], tramp |-> st.cb[ih][name],
         freed |-> IF val \in ClosureIds THEN st.freed[val] ELSE 0])]

\* ------------------------------------------------------ the native library
IupGetAttribute(st, ih, key) == st.attr[ih][key]

IupSetAttribute(st, ih, key, value) == [st EXCEPT !.attr[ih][key] = value]

IupSetCallback(st, ih, name, func) == [st EXCEPT !.cb[ih][name] = func]

IupGetCallback(st, ih, name) == st.cb[ih][name]

\* ------------------------------------------------------------ host memory
\* Box::new(Box::new(cb.unwrap())): a new owning box
BoxNew(st, c) == [st EXCEPT !.boxes[c] = @ + 1]

\* box_into_raw(fb): the box gives up ownership to a raw pointer
box_into_raw(st, c) == [st EXCEPT !.boxes[c] = @ - 1]

\* transmute(capsule_box): a raw pointer becomes an owning box
BoxFromRaw(st, c) == [st EXCEPT !.boxes[c] = @ + 1]

\* an owning box goes out of scope
DropBox(st, c) == [st EXCEPT !.boxes[c] = @ - 1, !.freed[c] = @ + 1]

\* f(Ihandle::from_ptr(ih)): the closure behind pointer c is called
Invoke(st, c, arg, name) ==
    Log(st, "invoke", arg.ptr, name, c)

\* ------------------------------------------------------------- $drop_func
\* A variant that forgets to clear the function pointer.
drop_func_keeps_callback(st, ih, cb_name) ==
    LET capsule_box == IupGetAttribute(st, ih, fbox_c_str(cb_name))
        s0 == Log(st, "IupGetAttribute", ih, cb_name, capsule_box)
    IN  IF capsule_box = NULL
        THEN [st |-> s0, ret |-> NULL]
        ELSE LET s1 == BoxFromRaw(s0, capsule_box)
                 s2 == Log(IupSetAttribute(s1, ih, fbox_c_str(cb_name), NULL),
                           "IupSetAttribute", ih, cb_name, NULL)
             IN  [st |-> s2, ret |-> capsule_box]

\* A variant that forgets to clear the attribute slot.
drop_func_keeps_slot(st, ih, cb_name) ==
    LET capsule_box == IupGetAttribute(st, ih, fbox_c_str(cb_name))
        s0 == Log(st, "IupGetAttribute", ih, cb_name, capsule_box)
    IN  IF capsule_box = NULL
        THEN [st |-> s0, ret |-> NULL]
        ELSE LET s1 == BoxFromRaw(s0, capsule_box)
                 s3 == Log(IupSetCallback(s1, ih, cb_name, NullCallback),
                           "IupSetCallback", ih, cb_name, NULL)
             IN  [st |-> s3, ret |-> capsule_box]

\* A variant that clears the slot and the function pointer before it looks
\* at what the slot held.
drop_func_clears_first(st, ih, cb_name) ==
    LET capsule_box == IupGetAttribute(st, ih, fbox_c_str(cb_name))
        s0 == Log(st, "IupGetAttribute", ih, cb_name, capsule_box)
        s2 == Log(IupSetAttribute(s0, ih, fbox_c_str(cb_name), NULL),
                  "IupSetAttribute", ih, cb_name, NULL)
        s3 == Log(IupSetCallback(s2, ih, cb_name, NullCallback),
                  "IupSetCallback", ih, cb_name, NULL)
    IN  IF capsule_box = NULL
        THEN [st |-> s3, ret |-> NULL]
        ELSE [st |-> BoxFromRaw(s3, capsule_box), ret |-> capsule_box]

drop_func(st, ih, cb_name) ==
    LET capsule_box == IupGetAttribute(st, ih, fbox_c_str(cb_name))
        s0 == Log(st, "IupGetAttribute", ih, cb_name, capsule_box)
    IN  IF capsule_box = NULL
        THEN [st |-> s0, ret |-> NULL]
        ELSE LET s1 == BoxFromRaw(s0, capsule_box)
                 s2 == Log(IupSetAttribute(s1, ih, fbox_c_str(cb_name), NULL),
                           "IupSetAttribute", ih, cb_name, NULL)
                 s3 == Log(IupSetCallback(s2, ih, cb_name, NullCallback),
                           "IupSetCallback", ih, cb_name, NULL)
             IN  [st |-> s3, ret |-> capsule_box]

\* -------------------------------------------------------------- $set_func
\* A variant that leaves an installed closure in place: it skips the
\* release, and stores the new closure only into an empty slot.
set_func_keeps_old(st, ih, cb_name, callback) ==
    LET capsule_box == IupGetAttribute(st, ih.ptr, fbox_c_str(cb_name))
    IN  IF callback # NULL /\ capsule_box # NULL
        THEN [st |-> DropBox(BoxNew(st, callback), callback), ret |-> NULL]
        ELSE LET d == drop_func(st, ih.ptr, cb_name)
             IN  IF callback # NULL
                 THEN LET s1 == box_into_raw(BoxNew(d.st, callback), callback)
                          s2 == IupSetAttribute(s1, ih.ptr, fbox_c_str(cb_name), callback)
                          s3 == IupSetCallback(s2, ih.ptr, cb_name, ListenerOf(cb_name))
                      IN  [st |-> s3, ret |-> d.ret]
                 ELSE [st |-> d.st, ret |-> d.ret]

\* A variant that returns the new closure's pointer instead of the old one.
set_func_returns_new(st, ih, cb_name, callback) ==
    LET d == drop_func(st, ih.ptr, cb_name)
    IN  IF callback # NULL
        THEN LET s1 == box_into_raw(BoxNew(d.st, callback), callback)
                 s2 == IupSetAttribute(s1, ih.ptr, fbox_c_str(cb_name), callback)
                 s3 == IupSetCallback(s2, ih.ptr, cb_name, ListenerOf(cb_name))
             IN  [st |-> s3, ret |-> callback]
        ELSE [st |-> d.st, ret |-> d.ret]

\* A variant that installs the listener before it stores the closure.
set_func_callback_first(st, ih, cb_name, callback) ==
    LET d == drop_func(st, ih.ptr, cb_name)
    IN  IF callback # NULL
        THEN LET s1 == box_into_raw(BoxNew(d.st, callback), callback)
                 s2 == Log(IupSetCallback(s1, ih.ptr, cb_name, ListenerOf(cb_name)),
                           "IupSetCallback", ih.ptr, cb_name, callback)
                 s3 == Log(IupSetAttribute(s2, ih.ptr, fbox_c_str(cb_name), callback),
                           "IupSetAttribute", ih.ptr, cb_name, callback)
             IN  [st |-> s3, ret |-> d.ret]
        ELSE [st |-> d.st, ret |-> d.ret]

\* A variant that stores the closure and forgets to install the listener.
set_func_no_callback(st, ih, cb_name, callback) ==
    LET d == drop_func(st, ih.ptr, cb_name)
    IN  IF callback # NULL
        THEN LET s1 == box_into_raw(BoxNew(d.st, callback), callback)
                 s2 == Log(IupSetAttribute(s1, ih.ptr, fbox_c_str(cb_name), callback),
                           "IupSetAttribute", ih.ptr, cb_name, callback)
             IN  [st |-> s2, ret |-> d.ret]
        ELSE [st |-> d.st, ret |-> d.ret]

\* callback is NULL for None, the new closure's allocation for Some(f)
set_func(st, ih, cb_name, callback) ==
    LET d == drop_func(st, ih.ptr, cb_name)
        old_cb == d.ret
    IN  IF callback # NULL
        THEN LET s1 == box_into_raw(BoxNew(d.st, callback), callback)
                 s2 == Log(IupSetAttribute(s1, ih.ptr, fbox_c_str(cb_name), callback),
                           "IupSetAttribute", ih.ptr, cb_name, callback)
                 s3 == Log(IupSetCallback(s2, ih.ptr, cb_name, ListenerOf(cb_name)),
                           "IupSetCallback", ih.ptr, cb_name, callback)
             IN  [st |-> s3, ret |-> old_cb]
        ELSE [st |-> d.st, ret |-> old_cb]

\* -------------------------------------------------------------- $listener
\* A variant without the assertion: on a null slot it goes on as if
\* nothing had happened.
listener_no_assert(st, ih, cb_name) ==
    LET fbox_ptr == IupGetAttribute(st, ih, fbox_c_str(cb_name))
        s0 == Log(st, "IupGetAttribute", ih, cb_name, fbox_ptr)
    IN  [st |-> s0, f |-> fbox_ptr]

\* The part every listener shares: fetch the slot and assert it is set.
\* f is the borrowed closure, NULL when the assertion failed.
listener(st, ih, cb_name) ==
    LET fbox_ptr == IupGetAttribute(st, ih, fbox_c_str(cb_name))
        s0 == Log(st, "IupGetAttribute", ih, cb_name, fbox_ptr)
    IN  IF fbox_ptr = NULL
        THEN [st |-> [s0 EXCEPT !.panicked = TRUE], f |-> NULL]
        ELSE [st |-> s0, f |-> fbox_ptr]

\* ---------------------------------------------------- the instantiations
set_action(st, ih, callback) == set_func(st, ih, "ACTION", callback)

drop_action(st, ih) == drop_func(st, ih, "ACTION")

\* A variant that takes the closure as an owning box, which it drops on return.
listener_action_owning(st, ih, r) ==
    LET l == listener(st, ih, "ACTION")
    IN  IF l.f = NULL
        THEN [st |-> l.st, ret |-> "none"]
        ELSE [st |-> DropBox(Invoke(BoxFromRaw(l.st, l.f), l.f, from_ptr(ih), "ACTION"), l.f),
              ret |-> r]

\* A variant that reports Default whatever the closure returns.
listener_action_default(st, ih, r) ==
    LET l == listener(st, ih, "ACTION")
    IN  IF l.f = NULL
        THEN [st |-> l.st, ret |-> "none"]
        ELSE [st |-> Invoke(l.st, l.f, from_ptr(ih), "ACTION"), ret |-> "Default"]

\* r is what the closure returns on this call
listener_action(st, ih, r) ==
    LET l == listener(st, ih, "ACTION")
    IN  IF l.f = NULL
        THEN [st |-> l.st, ret |-> "none"]
        ELSE [st |-> Invoke(l.st, l.f, from_ptr(ih), "ACTION"), ret |-> r]

\* A variant instantiated with the name of the other callback.
set_destroy_cb_wrong_name(st, ih, callback) == set_func(st, ih, "ACTION", callback)

set_destroy_cb(st, ih, callback) == set_func(st, ih, "DESTROY_CB", callback)

drop_destroy_cb(st, ih) == drop_func(st, ih, "DESTROY_CB")

listener_destroy_cb(st, ih, r) ==
    LET l == listener(st, ih, "DESTROY_CB")
    IN  IF l.f = NULL
        THEN [st |-> l.st, ret |-> "none"]
        ELSE [st |-> Invoke(l.st, l.f, from_ptr(ih), "DESTROY_CB"), ret |-> "Default"]

\* ------------------------------------------------------------- on_destroy
\* A variant that releases DESTROY_CB first and ACTION last.
on_destroy_destroy_cb_first(st, ih) ==
    LET d == drop_destroy_cb(st, ih)
        s1 == IF d.ret # NULL
              THEN DropBox(Invoke(d.st, d.ret, from_ptr(ih), "DESTROY_CB"), d.ret)
              ELSE d.st
        a == drop_action(s1, ih)
    IN  IF a.ret # NULL THEN DropBox(a.st, a.ret) ELSE a.st

\* A variant that releases the DESTROY_CB closure without calling it.
on_destroy_no_invoke(st, ih) ==
    LET a == drop_action(st, ih)
        s1 == IF a.ret # NULL THEN DropBox(a.st, a.ret) ELSE a.st
        d == drop_destroy_cb(s1, ih)
    IN  IF d.ret # NULL THEN DropBox(d.st, d.ret) ELSE d.st

\* A variant that forgets drop_action.
on_destroy_forgets_action(st, ih) ==
    LET d == drop_destroy_cb(st, ih)
    IN  IF d.ret # NULL
        THEN DropBox(Invoke(d.st, d.ret, from_ptr(ih), "DESTROY_CB"), d.ret)
        ELSE d.st

on_destroy(st, ih) ==
    LET a == drop_action(st, ih)
        \* the value of the statement `drop_action(ih);` is dropped
        s1 == IF a.ret # NULL THEN DropBox(a.st, a.ret) ELSE a.st
        d == drop_destroy_cb(s1, ih)
    IN  IF d.ret # NULL
        THEN DropBox(Invoke(d.st, d.ret, from_ptr(ih), "DESTROY_CB"), d.ret)
        ELSE d.st

\* --------------------------------------------------------- dispatch tables
SetFuncOf(st, ih, cb_name, callback) ==
    IF cb_name = "ACTION" THEN set_action(st, ih, callback)
    ELSE set_destroy_cb(st, ih, callback)

DropFuncOf(st, ih, cb_name) ==
    IF cb_name = "ACTION" THEN drop_action(st, ih) ELSE drop_destroy_cb(st, ih)

\* the native library calls through the function pointer func
CallListener(func, st, ih, r) ==
    IF func = "listener_action" THEN listener_action(st, ih, r)
    ELSE listener_destroy_cb(st, ih, r)

\* what a closure registered for cb_name may return
ResultsOf(cb_name) == IF cb_name = "ACTION" THEN CallbackReturn ELSE {Unit}

\* ------------------------------------------------------------------ state
Commit(st) ==
    /\ attr' = st.attr
    /\ cb' = st.cb
    /\ boxes' = st.boxes
    /\ freed' = st.freed
    /\ panicked' = st.panicked
    /\ trace' = st.trace

NoOp == [op |-> "init", h |-> 0, name |-> "", arg |-> NULL, ret |-> NULL, cbret |-> "none", again |-> FALSE, cres |-> "none"]

Init ==
    /\ attr = [h \in Handles |-> [k \in FboxKeys |-> NULL]]
    /\ cb = [h \in Handles |-> [n \in Names |-> NullCallback]]
    /\ boxes = [c \in ClosureIds |-> 0]
    /\ freed = [c \in ClosureIds |-> 0]
    /\ nextId = 1
    /\ panicked = FALSE
    /\ phase = [h \in Handles |-> "live"]
    /\ trace = <<>>
    /\ last = NoOp
    /\ latest = [h \in Handles |-> [n \in Names |-> NULL]]

\* The process runs, and the native library is not inside IupDestroy.
Running == ~panicked /\ \A h \in Handles : phase[h] # "destroying"

\* set_action / set_destroy_cb called by the host; the new closure, when
\* there is one, is a fresh allocation. The returned box is the caller's.
Register(h, n, some) ==
    /\ Running
    /\ phase[h] = "live"
    /\ some => nextId <= MaxClosures
    /\ LET x == IF some THEN nextId ELSE NULL
           r == SetFuncOf(Cur, from_ptr(h), n, x)
       IN  /\ Commit(r.st)
           /\ nextId' = IF some THEN nextId + 1 ELSE nextId
           /\ latest' = IF some THEN [latest EXCEPT ![h][n] = x] ELSE latest
           /\ last' = [op |-> "register", h |-> h, name |-> n, arg |-> x,
                       ret |-> r.ret, cbret |-> "none", again |-> FALSE, cres |-> "none"]
    /\ UNCHANGED phase

\* drop_action / drop_destroy_cb called on their own; the returned box is
\* the caller's.
Release(h, n) ==
    /\ Running
    /\ phase[h] = "live"
    /\ LET r == DropFuncOf(Cur, h, n)
       IN  /\ Commit(r.st)
           /\ last' = [op |-> "release", h |-> h, name |-> n, arg |-> NULL,
                       ret |-> r.ret, cbret |-> "none", again |-> FALSE, cres |-> "none"]
    /\ UNCHANGED <<nextId, phase, latest>>

\* The native library fires event n on h: it calls the function pointer of
\* n when one is set.
Dispatch(h, n) ==
    /\ Running
    /\ phase[h] = "live"
    /\ IupGetCallback(Cur, h, n) # NullCallback
    /\ \E r \in ResultsOf(n) :
         LET l == CallListener(IupGetCallback(Cur, h, n), Cur, h, r)
         IN  /\ Commit(l.st)
             /\ last' = [op |-> "dispatch", h |-> h, name |-> n, arg |-> NULL,
                         ret |-> NULL, cbret |-> l.ret,
                         again |-> last.op = "dispatch" /\ last.h = h /\ last.name = n,
                         cres |-> r]
    /\ UNCHANGED <<nextId, phase, latest>>

\* The host drops a box it was handed.
CallerDrop(c) ==
    /\ Running
    /\ boxes[c] > 0
    /\ Commit(DropBox(Cur, c))
    /\ last' = [op |-> "caller_drop", h |-> 0, name |-> "", arg |-> c,
                ret |-> NULL, cbret |-> "none", again |-> FALSE, cres |-> "none"]
    /\ UNCHANGED <<nextId, phase, latest>>

\* IupDestroy(h), first half: the native library calls LDESTROY_CB, which
\* is on_destroy.
OnDestroy(h) ==
    /\ Running
    /\ phase[h] = "live"
    /\ Commit(on_destroy(Cur, h))
    /\ phase' = [phase EXCEPT ![h] = "destroying"]
    /\ last' = [op |-> "on_destroy", h |-> h, name |-> "", arg |-> NULL,
                ret |-> NULL, cbret |-> "none", again |-> FALSE, cres |-> "none"]
    /\ UNCHANGED <<nextId, latest>>

\* IupDestroy(h), second half: the native library fires DESTROY_CB when a
\* function pointer is installed for it, then frees the handle.
FireDestroyCb(h) ==
    /\ ~panicked
    /\ phase[h] = "destroying"
    /\ LET func == IupGetCallback(Cur, h, "DESTROY_CB")
           \* the trace goes on from on_destroy's: both are one IupDestroy
           s0 == Log([Cur EXCEPT !.trace = trace], "IupGetCallback", h, "DESTROY_CB", NULL)
           l == IF func # NullCallback
                THEN CallListener(func, s0, h, Unit)
                ELSE [st |-> s0, ret |-> "none"]
       IN  /\ Commit(l.st)
           /\ last' = [op |-> "fire_destroy_cb", h |-> h, name |-> "DESTROY_CB",
                       arg |-> NULL, ret |-> NULL, cbret |-> l.ret, again |-> FALSE, cres |-> "none"]
    /\ phase' = [phase EXCEPT ![h] = "dead"]
    /\ UNCHANGED <<nextId, latest>>

Next ==
    \/ \E h \in Handles, n \in Names, some \in BOOLEAN : Register(h, n, some)
    \/ \E h \in Handles, n \in Names : Release(h, n)
    \/ \E h \in Handles, n \in Names : Dispatch(h, n)
    \/ \E c \in ClosureIds : CallerDrop(c)
    \/ \E h \in Handles : OnDestroy(h)
    \/ \E h \in Handles : FireDestroyCb(h)

Spec == Init /\ [][Next]_vars

\* ------------------------------------------- a host that breaks the pairing
\* The attribute store is the native library's public one: code outside the
\* binding sets the attribute of a binding key to null, behind the binding's
\* back. The function pointer stays installed and the closure leaks.
ForeignClear(h, n) ==
    /\ Running
    /\ phase[h] = "live"
    /\ IupGetAttribute(Cur, h, fbox_c_str(n)) # NULL
    /\ Commit(Log(IupSetAttribute(Cur, h, fbox_c_str(n), NULL),
                  "IupSetAttribute", h, n, NULL))
    /\ last' = [op |-> "foreign_clear", h |-> h, name |-> n, arg |-> NULL,
                ret |-> NULL, cbret |-> "none", again |-> FALSE, cres |-> "none"]
    /\ UNCHANGED <<nextId, phase, latest>>

NextForeign ==
    \/ Next
    \/ \E h \in Handles, n \in Names : ForeignClear(h, n)

SpecForeign == Init /\ [][NextForeign]_vars

\* ============================================================== properties
Slot(h, n) == attr[h][fbox_c_str(n)]

Tramp(h, n) == cb[h][n]

\* where in the trace of the last operation op was done for callback name
EventsOf(op, name) ==
    {i \in 1..Len(trace) : trace[i].op = op /\ trace[i].name = name}

\* where the last operation cleared the slot or the trampoline of name
ReleasesOf(name) == EventsOf("IupSetAttribute", name) \cup EventsOf("IupSetCallback", name)

\* the closure the last operation read from the slot of name (NULL: none)
FoundIn(name) ==
    LET S == EventsOf("IupGetAttribute", name)
    IN  IF S = {} THEN NULL ELSE trace[CHOOSE i \in S : \A j \in S : i <= j].val

Invokes == {i \in 1..Len(trace) : trace[i].op = "invoke"}

\* C1: when on_destroy runs on a handle with both ACTION and DESTROY_CB
\* registered, every native call releasing ACTION comes before every native
\* call releasing DESTROY_CB, and the DESTROY_CB closure is invoked exactly
\* once, on the wrapper of the destroyed handle, after its slot and its
\* trampoline were cleared; no other closure is invoked.
C1_TeardownOrder ==
    (last.op = "on_destroy" /\ FoundIn("ACTION") # NULL /\ FoundIn("DESTROY_CB") # NULL) =>
        /\ ReleasesOf("ACTION") # {}
        /\ ReleasesOf("DESTROY_CB") # {}
        /\ \A i \in ReleasesOf("ACTION") : \A j \in ReleasesOf("DESTROY_CB") : i < j
        /\ Cardinality(Invokes) = 1
        /\ \A k \in Invokes :
              /\ trace[k].val = FoundIn("DESTROY_CB")
              /\ trace[k].name = "DESTROY_CB"
              /\ trace[k].h = last.h
              /\ trace[k].slot = NULL
              /\ trace[k].tramp = NullCallback
              /\ \A j \in ReleasesOf("DESTROY_CB") : j < k

C1_Witness ==
    /\ last.op = "on_destroy"
    /\ FoundIn("ACTION") # NULL
    /\ FoundIn("DESTROY_CB") # NULL
    /\ Invokes # {}
    /\ freed[FoundIn("ACTION")] = 1
    /\ freed[FoundIn("DESTROY_CB")] = 1

\* the slot and the trampoline of (h, n) after a step
SlotAfter(h, n) == attr'[h][fbox_c_str(n)]

TrampAfter(h, n) == cb'[h][n]

SupersededAfter(c) ==
    c < nextId' /\ \A h \in Handles : \A n \in Names : SlotAfter(h, n) # c

\* closure c was allocated and no slot holds it
Superseded(c) ==
    c < nextId /\ \A h \in Handles : \A n \in Names : Slot(h, n) # c

\* the closures a trace calls, in order
IsInvoke(e) == e.op = "invoke"

Invoked(t) == [i \in 1..Len(SelectSeq(t, IsInvoke)) |-> SelectSeq(t, IsInvoke)[i].val]

\* the part of the trace a step adds (IupDestroy's second half goes on from
\* the trace of its first)
AddedTrace ==
    IF last'.op = "fire_destroy_cb" THEN SubSeq(trace', Len(trace) + 1, Len(trace')) ELSE trace'

\* C2: a Dispatch for (h, n) invokes the closure passed to the most recent
\* Register with a closure for (h, n), once, and no other closure; a Register
\* or Release that takes a closure out of its slot returns that closure,
\* which is the most recently registered one; a closure out of its slot
\* stays out, and no step invokes a closure that was out of its slot.
C2_MostRecentActive ==
    [][ /\ last'.op = "dispatch" =>
             /\ latest[last'.h][last'.name] # NULL
             /\ Invoked(trace') = <<latest[last'.h][last'.name]>>
        /\ (last'.op \in {"register", "release"} /\ Slot(last'.h, last'.name) # NULL) =>
             /\ last'.ret = Slot(last'.h, last'.name)
             /\ last'.ret = latest[last'.h][last'.name]
             /\ SupersededAfter(last'.ret)
        /\ \A i \in 1..Len(Invoked(AddedTrace)) : ~Superseded(Invoked(AddedTrace)[i])
        /\ \A c \in ClosureIds : Superseded(c) => SupersededAfter(c)
      ]_vars

\* c2 replaced c1 in a slot, c1 went to the caller, and a Dispatch invoked c2
C2_Witness ==
    /\ last.op = "dispatch"
    /\ latest[last.h][last.name] = 2
    /\ \A h \in Handles : \A n \in Names : <<h, n>> # <<last.h, last.name>> => latest[h][n] = NULL
    /\ boxes[1] = 1
    /\ Invoked(trace) = <<2>>

\* C4: over IupDestroy (on_destroy, then the DESTROY_CB event when a
\* function pointer is still set) the DESTROY_CB closure found on the handle
\* is invoked exactly once, inside on_destroy; the native library then finds
\* no function pointer for DESTROY_CB, so listener_destroy_cb does not run;
\* and once on_destroy has run, drop_destroy_cb returns none.
C4_DestroyCbOnce ==
    \A h \in Handles :
        /\ phase[h] # "live" => drop_destroy_cb(Cur, h).ret = NULL
        /\ (last.h = h /\ last.op \in {"on_destroy", "fire_destroy_cb"}
               /\ FoundIn("DESTROY_CB") # NULL) =>
             LET d == FoundIn("DESTROY_CB")
             IN  /\ Cardinality({i \in Invokes : trace[i].val = d}) = 1
                 /\ \A i \in Invokes : \A j \in EventsOf("IupGetCallback", "DESTROY_CB") : i < j
                 /\ last.op = "fire_destroy_cb" =>
                       /\ EventsOf("IupGetCallback", "DESTROY_CB") # {}
                       /\ \A j \in EventsOf("IupGetCallback", "DESTROY_CB") :
                             trace[j].tramp = NullCallback
                       /\ Cardinality(EventsOf("IupGetAttribute", "DESTROY_CB")) = 1
                       /\ last.cbret = "none"
                       /\ ~panicked

\* a handle with DESTROY_CB registered and no ACTION went through IupDestroy
C4_Witness ==
    /\ last.op = "fire_destroy_cb"
    /\ phase[last.h] = "dead"
    /\ FoundIn("DESTROY_CB") # NULL
    /\ FoundIn("ACTION") = NULL
    /\ Invokes # {}
    /\ freed[FoundIn("DESTROY_CB")] = 1

\* C5: on a live handle whose slot for n holds a closure, a first Release
\* returns that closure and a second Release right after it returns none and
\* leaves the attribute store, the function-pointer table and the ownership
\* counts as the first left them.
C5_ReleaseIdempotent ==
    \A h \in Handles : \A n \in Names :
        (phase[h] = "live" /\ Slot(h, n) # NULL) =>
            LET r1 == DropFuncOf(Cur, h, n)
                r2 == DropFuncOf(r1.st, h, n)
            IN  /\ r1.ret = Slot(h, n)
                /\ r1.st.attr[h][fbox_c_str(n)] = NULL
                /\ r2.ret = NULL
                /\ r2.st.attr = r1.st.attr
                /\ r2.st.cb = r1.st.cb
                /\ r2.st.boxes = r1.st.boxes
                /\ r2.st.freed = r1.st.freed

\* a Release returned none on a slot whose closure an earlier Release or
\* Register of none had handed to the caller
C5_Witness ==
    /\ last.op = "release"
    /\ last.ret = NULL
    /\ latest[last.h][last.name] # NULL
    /\ boxes[latest[last.h][last.name]] = 1
    /\ \E h \in Handles : \E n \in Names : phase[h] = "live" /\ Slot(h, n) # NULL

\* C6: Register(h, n, x) returns what the slot of (h, n) held right before
\* the call; afterwards, with x a closure the slot holds x and the function
\* pointer of n is the listener of n, and with x none the slot is empty and
\* the function pointer of n is null.
C6_RegisterContract ==
    [][ last'.op = "register" =>
          /\ last'.ret = Slot(last'.h, last'.name)
          /\ last'.arg # NULL =>
                /\ SlotAfter(last'.h, last'.name) = last'.arg
                /\ TrampAfter(last'.h, last'.name) = ListenerOf(last'.name)
          /\ last'.arg = NULL =>
                /\ SlotAfter(last'.h, last'.name) = NULL
                /\ TrampAfter(last'.h, last'.name) = NullCallback
      ]_vars

\* a Register with a closure returned the closure it replaced
C6_Witness ==
    /\ last.op = "register"
    /\ last.arg # NULL
    /\ last.ret # NULL
    /\ Slot(last.h, last.name) = last.arg
    /\ boxes[last.ret] = 1

\* the slots that hold the pointer of closure c
SlotsHolding(c) == {hn \in Handles \X Names : Slot(hn[1], hn[2]) = c}

\* C7: a closure that was registered is in exactly one place: one slot, one
\* box in the host's hands, or freed (once); one that was not is nowhere;
\* no closure is called while freed; and a step calls only closures that
\* before it were in a slot, not in the host's hands and not freed.
C7_SingleOwnership ==
    /\ [](\A c \in ClosureIds :
            /\ c < nextId => Cardinality(SlotsHolding(c)) + boxes[c] + freed[c] = 1
            /\ c >= nextId => Cardinality(SlotsHolding(c)) + boxes[c] + freed[c] = 0
            /\ boxes[c] >= 0)
    /\ [](\A i \in Invokes : trace[i].freed = 0)
    /\ [][\A i \in 1..Len(Invoked(AddedTrace)) :
            LET c == Invoked(AddedTrace)[i]
            IN  boxes[c] = 0 /\ freed[c] = 0 /\ SlotsHolding(c) # {}]_vars

\* one closure is installed while the host has dropped another it was handed
C7_Witness ==
    /\ last.op = "caller_drop"
    /\ freed[last.arg] = 1
    /\ boxes[last.arg] = 0
    /\ \E c \in ClosureIds : SlotsHolding(c) # {}

\* C8: once on_destroy has run on a handle, both its slots are empty and
\* both its function pointers null; on_destroy frees each closure the handle
\* stored, which was not freed before, leaves no box of it behind, and
\* touches no other closure.
C8_ReclaimedAtDestroy ==
    /\ [](\A h \in Handles : phase[h] # "live" =>
            \A n \in Names : Slot(h, n) = NULL /\ Tramp(h, n) = NullCallback)
    /\ [][\A h \in Handles : (phase[h] = "live" /\ phase'[h] = "destroying") =>
            \A c \in ClosureIds :
                IF \E n \in Names : Slot(h, n) = c
                THEN freed[c] = 0 /\ freed'[c] = 1 /\ boxes'[c] = 0
                ELSE freed'[c] = freed[c] /\ boxes'[c] = boxes[c]]_vars

\* on_destroy freed a closure that had replaced another one
C8_Witness ==
    /\ last.op = "on_destroy"
    /\ phase[last.h] = "destroying"
    /\ FoundIn("ACTION") = 2
    /\ freed[2] = 1
    /\ boxes[1] = 1

\* C9: a Release on an empty slot returns none, makes the one native call
\* that reads the slot and no other, leaves the attribute store, the
\* function-pointer table and every closure's ownership as they were, and
\* fails no assertion.
C9_ReleaseEmptyNoOp ==
    [][ (last'.op = "release" /\ Slot(last'.h, last'.name) = NULL) =>
          /\ last'.ret = NULL
          /\ attr' = attr
          /\ cb' = cb
          /\ boxes' = boxes
          /\ freed' = freed
          /\ ~panicked'
          /\ Len(trace') = 1
          /\ trace'[1].op = "IupGetAttribute"
      ]_vars

\* a Release on a handle nothing was ever registered on, while another
\* handle has a closure installed
C9_Witness ==
    /\ last.op = "release"
    /\ last.ret = NULL
    /\ \A n \in Names : latest[last.h][n] = NULL
    /\ \E h \in Handles : \E n \in Names : Slot(h, n) # NULL

\* C10: a Dispatch for (h, n) calls the stored closure once and leaves the
\* attribute store, the function-pointer table and every closure's ownership
\* unchanged; a Dispatch fired right after it calls the same closure once.
C10_DispatchBorrows ==
    [][ last'.op = "dispatch" =>
          /\ attr' = attr
          /\ cb' = cb
          /\ boxes' = boxes
          /\ freed' = freed
          /\ Slot(last'.h, last'.name) # NULL
          /\ Invoked(trace') = <<Slot(last'.h, last'.name)>>
          /\ TrampAfter(last'.h, last'.name) # NullCallback
          /\ \A r \in ResultsOf(last'.name) :
                Invoked(CallListener(TrampAfter(last'.h, last'.name), Cur', last'.h, r).st.trace)
                    = <<Slot(last'.h, last'.name)>>
      ]_vars

\* the same closure was called by two firings in a row
C10_Witness ==
    /\ last.op = "dispatch"
    /\ last.again
    /\ Invoked(trace) = <<Slot(last.h, last.name)>>
    /\ freed[Slot(last.h, last.name)] = 0

\* C11: a Dispatch of ACTION returns to the native library the value the
\* closure returned, and for every value of CallbackReturn listener_action
\* on a stored closure returns that value; a Dispatch of DESTROY_CB returns
\* Default; in both the one closure call is on the wrapper of the handle the
\* event fired on.
C11_ResultMapping ==
    /\ last.op = "dispatch" =>
          /\ last.name = "ACTION" => (last.cres \in CallbackReturn /\ last.cbret = last.cres)
          /\ last.name = "DESTROY_CB" => (last.cres = Unit /\ last.cbret = "Default")
          /\ Cardinality(Invokes) = 1
          /\ \A i \in Invokes : trace[i].h = last.h /\ trace[i].name = last.name
    /\ \A h \in Handles :
          /\ (phase[h] = "live" /\ Slot(h, "ACTION") # NULL) =>
                \A r \in CallbackReturn :
                    LET l == listener_action(Cur, h, r)
                    IN  l.ret = r /\ l.st.trace[Len(l.st.trace)].h = from_ptr(h).ptr
          /\ (phase[h] = "live" /\ Slot(h, "DESTROY_CB") # NULL) =>
                LET l == listener_destroy_cb(Cur, h, Unit)
                IN  l.ret = "Default" /\ l.st.trace[Len(l.st.trace)].h = from_ptr(h).ptr

\* an ACTION closure returned Close and the native library got Close
C11_Witness ==
    /\ last.op = "dispatch"
    /\ last.name = "ACTION"
    /\ last.cres = "Close"
    /\ last.cbret = "Close"
    /\ Invokes # {}

\* a step enters a listener of (h, n): a Dispatch, or IupDestroy finding a
\* function pointer for DESTROY_CB
EntersListener ==
    \/ last'.op = "dispatch"
    \/ last'.op = "fire_destroy_cb" /\ Tramp(last'.h, "DESTROY_CB") # NullCallback

\* C12: with a host that may null a binding slot behind the binding's back,
\* a listener entered on an empty slot fails its assertion: it calls no
\* closure, returns no CallbackReturn, and leaves the attribute store, the
\* function-pointer table and every ownership count as they were; the
\* assertion fails in no other case, and nothing runs after it failed.
C12_FatalOnEmptySlot ==
    [][ /\ ~panicked
        /\ (EntersListener /\ Slot(last'.h, last'.name) = NULL) =>
              /\ panicked'
              /\ Invoked(AddedTrace) = << >>
              /\ last'.cbret = "none"
              /\ attr' = attr
              /\ cb' = cb
              /\ boxes' = boxes
              /\ freed' = freed
        /\ panicked' => (EntersListener /\ Slot(last'.h, last'.name) = NULL)
      ]_vars

\* a Dispatch entered a listener whose slot had been nulled
C12_Witness ==
    /\ panicked
    /\ last.op = "dispatch"
    /\ Slot(last.h, last.name) = NULL
    /\ Tramp(last.h, last.name) # NullCallback
    /\ Invokes = {}

\* the points of the last operation that leave the trampoline of their
\* (handle, name) installed over an empty slot
Exposed == {i \in 1..Len(trace) : trace[i].tramp # NullCallback /\ trace[i].slot = NULL}

BindingOps == {"register", "release", "on_destroy"}

\* C13 as stated: between the native calls of Register, Release and
\* on_destroy there is no point with the trampoline installed and the slot
\* empty.
C13_NoExposedPoint ==
    last.op \in BindingOps => Exposed = {}

\* C13, amended: the only such points are inside a release of a stored
\* closure, right after its IupSetAttribute(key, null), and the very next
\* native call is the IupSetCallback(name, null) that ends them; the
\* installing half of Register has none.
C13_ExposedOnlyInsideRelease ==
    last.op \in BindingOps =>
        \A i \in Exposed :
            /\ trace[i].op = "IupSetAttribute"
            /\ trace[i].val = NULL
            /\ i > 1
            /\ trace[i - 1].op = "IupGetAttribute"
            /\ trace[i - 1].val # NULL
            /\ trace[i - 1].h = trace[i].h /\ trace[i - 1].name = trace[i].name
            /\ i < Len(trace)
            /\ trace[i + 1].op = "IupSetCallback"
            /\ trace[i + 1].h = trace[i].h /\ trace[i + 1].name = trace[i].name
            /\ trace[i + 1].tramp = NullCallback

\* a Register replaced a stored closure: its release half passed through
\* such a point, its installing half did not
C13_Witness ==
    /\ last.op = "register"
    /\ last.arg # NULL
    /\ last.ret # NULL
    /\ Cardinality(Exposed) = 1
    /\ Slot(last.h, last.name) = last.arg
    /\ Tramp(last.h, last.name) # NullCallback

\* C14: the key of ACTION is "_IUPRUST_FBOX_ACTION" and the key of
\* DESTROY_CB is "_IUPRUST_FBOX_DESTROY_CB"; different names have different
\* keys; no key is a callback name; every handle has one slot per name, and
\* closures stored under both names of a handle are different closures.
C14_BindingKeysUnique ==
    /\ fbox_c_str("ACTION") = "_IUPRUST_FBOX_ACTION"
    /\ fbox_c_str("DESTROY_CB") = "_IUPRUST_FBOX_DESTROY_CB"
    /\ \A n1 \in Names : \A n2 \in Names : fbox_c_str(n1) = fbox_c_str(n2) => n1 = n2
    /\ FboxKeys \cap Names = {}
    /\ \A h \in Handles :
          /\ DOMAIN attr[h] = FboxKeys
          /\ Cardinality(DOMAIN attr[h]) = Cardinality(Names)
          /\ DOMAIN cb[h] = Names
          /\ (Slot(h, "ACTION") # NULL /\ Slot(h, "DESTROY_CB") # NULL) =>
                Slot(h, "ACTION") # Slot(h, "DESTROY_CB")

\* a second callback was registered on a handle and found its own slot
\* empty; both closures are stored
C14_Witness ==
    /\ last.op = "register"
    /\ last.arg # NULL
    /\ last.ret = NULL
    /\ Slot(last.h, "ACTION") # NULL
    /\ Slot(last.h, "DESTROY_CB") # NULL

\* C15: at every operation boundary a slot that holds a closure has the
\* listener of its callback name installed as the function pointer of that
\* name on the same handle, and a slot that holds none has no function
\* pointer installed.
C15_StoredClosureReachable ==
    \A h \in Handles : \A n \in Names :
        /\ Slot(h, n) # NULL => Tramp(h, n) = ListenerOf(n)
        /\ Slot(h, n) = NULL => Tramp(h, n) = NullCallback

\* a closure stored by a Register that replaced another, since dropped
C15_Witness ==
    /\ last.op = "register"
    /\ Slot(last.h, last.name) = 2
    /\ freed[1] = 1
    /\ Tramp(last.h, last.name) = ListenerOf(last.name)

\* C16: a Register, Release or Dispatch for (h, n) leaves the slot and the
\* function pointer of every other name on h and of every name on every
\* other handle as they were.
C16_BindingsIndependent ==
    [][ last'.op \in {"register", "release", "dispatch"} =>
          \A h \in Handles : \A n \in Names :
              <<h, n>> # <<last'.h, last'.name>> =>
                  (SlotAfter(h, n) = Slot(h, n) /\ TrampAfter(h, n) = Tramp(h, n))
      ]_vars

\* set_destroy_cb stored a closure on a handle whose ACTION binding stays
C16_Witness ==
    /\ last.op = "register"
    /\ last.name = "DESTROY_CB"
    /\ last.arg # NULL
    /\ Slot(last.h, "ACTION") # NULL
    /\ Tramp(last.h, "ACTION") = ListenerOf("ACTION")
    /\ latest[last.h]["ACTION"] = Slot(last.h, "ACTION")

\* C3: whenever the function pointer of a callback name is set on a handle,
\* the binding slot of that name holds a closure, and no listener's
\* assertion has failed.
C3_NoDispatchOnEmptySlot ==
    /\ ~panicked
    /\ \A h \in Handles : \A n \in Names : Tramp(h, n) # NullCallback => Slot(h, n) # NULL

\* a listener ran after a Release and a Register of none on the same handle
C3_Witness ==
    /\ last.op = "dispatch"
    /\ Invokes # {}
    /\ \E c \in ClosureIds : boxes[c] = 1
    /\ \E n \in Names : latest[last.h][n] # NULL /\ Slot(last.h, n) = NULL

====
